---- MODULE Spec2Model ----
(***************************************************************************)
(* Model of the command-line tokenizer (Parse / split) and of its inverse  *)
(* encoder (GetCommandLine / Quote) of package exec.                       *)
(*                                                                         *)
(* A string is a sequence of codepoints (integers).  split is modelled one *)
(* loop iteration per step; the encoder is a pure function.                *)
(***************************************************************************)
EXTENDS Integers, Sequences, FiniteSets, TLC

(***************************************************************************)
(* Bounds of the model.                                                    *)
(***************************************************************************)
\* longest command line handed directly to Parse
MaxLen == 5
\* size of an input of GetCommandLine: codepoints of the command and of all
\* arguments, plus the number of arguments
MaxInput == 4

(***************************************************************************)
(* Program constants.                                                      *)
(***************************************************************************)
eol == 0
esc == 92
sqt == 39
dqt == 34

parseDefault == 0
parseSingleQuote == 1
parseDoubleQuote == 2

\* codepoints used in the inputs: space, 'a', 'b', and the no-break space
\* (whitespace for unicode.IsSpace, two bytes in UTF-8)
spc == 32
chA == 97
chB == 98
nbsp == 160

\* errors.Error values: nil, and the two ErrParse instances split and Parse make
NoError == "nil"
ErrInvalidZero == "ErrParse: Invalid 0 char in command line"
ErrUnexpectedEnd == "ErrParse: Unexpected end of command line"

IsParseError(err) == err \in {ErrInvalidZero, ErrUnexpectedEnd}

\* unicode.IsSpace
IsSpace(r) ==
    \/ r \in {9, 10, 11, 12, 13, 32, 133, 160, 5760}
    \/ r \in 8192..8202
    \/ r \in {8232, 8233, 8239, 8287, 12288}

\* number of bytes of the UTF-8 encoding of a codepoint
Utf8Len(r) == IF r < 128 THEN 1 ELSE IF r < 2048 THEN 2 ELSE IF r < 65536 THEN 3 ELSE 4

\* len(str) of a Go string: its length in bytes
RECURSIVE len(_)
len(str) == IF str = <<>> THEN 0 ELSE Utf8Len(Head(str)) + len(Tail(str))

(***************************************************************************)
(* split: the locals of one call are the record                            *)
(*   [parts, state, escape, sb, partStart]                                 *)
(***************************************************************************)
splitInit == [parts |-> <<>>, state |-> parseDefault, escape |-> FALSE,
              sb |-> <<>>, partStart |-> 0]

\* mutant: the pending escape is not checked at the end of the line
eolCheck_NoEscape(s, i, n) ==
    IF i < n - 1
    THEN ErrInvalidZero
    ELSE IF s.state # parseDefault
         THEN ErrUnexpectedEnd
         ELSE NoError

\* mutant: a literal eol rune is rejected outside quotes only
eolCheck_DefaultOnly(s, i, n) ==
    IF i < n - 1
    THEN (IF s.state = parseDefault THEN ErrInvalidZero ELSE NoError)
    ELSE IF s.state # parseDefault \/ s.escape
         THEN ErrUnexpectedEnd
         ELSE NoError

\* the check made when the loop meets the eol rune at index i of n runes
eolCheck(s, i, n) ==
    IF i < n - 1
    THEN ErrInvalidZero
    ELSE IF s.state # parseDefault \/ s.escape
         THEN ErrUnexpectedEnd
         ELSE NoError

\* "ignore multiple consecutive spaces": is the current part appended?
partEnds(partStart, i) == partStart < i - 1

\* mutant: an escaped codepoint keeps its backslash, as inside double quotes
defaultCase_KeepsBackslash(s, r, i) ==
    IF s.escape
    THEN [s EXCEPT !.escape = FALSE,
                   !.sb = IF r # esc /\ r # dqt
                          THEN Append(Append(s.sb, esc), r)
                          ELSE Append(s.sb, r)]
    ELSE IF IsSpace(r) \/ r = eol
         THEN IF s.partStart < i - 1
              THEN [s EXCEPT !.parts = Append(s.parts, s.sb), !.sb = <<>>,
                             !.partStart = i]
              ELSE [s EXCEPT !.partStart = i]
         ELSE IF r = sqt
              THEN [s EXCEPT !.state = parseSingleQuote]
              ELSE IF r = dqt
                   THEN [s EXCEPT !.state = parseDoubleQuote]
                   ELSE IF r = esc
                        THEN [s EXCEPT !.escape = TRUE]
                        ELSE [s EXCEPT !.sb = Append(s.sb, r)]

\* case parseDefault
defaultCase(s, r, i) ==
    IF s.escape
    THEN [s EXCEPT !.escape = FALSE, !.sb = Append(s.sb, r)]
    ELSE IF IsSpace(r) \/ r = eol
         THEN IF partEnds(s.partStart, i)
              THEN [s EXCEPT !.parts = Append(s.parts, s.sb), !.sb = <<>>,
                             !.partStart = i]
              ELSE [s EXCEPT !.partStart = i]
         ELSE IF r = sqt
              THEN [s EXCEPT !.state = parseSingleQuote]
              ELSE IF r = dqt
                   THEN [s EXCEPT !.state = parseDoubleQuote]
                   ELSE IF r = esc
                        THEN [s EXCEPT !.escape = TRUE]
                        ELSE [s EXCEPT !.sb = Append(s.sb, r)]

\* mutant: a backslash inside single quotes is dropped
singleQuoteCase_DropsBackslash(s, r) ==
    IF r = sqt
    THEN [s EXCEPT !.state = parseDefault]
    ELSE IF r = esc
         THEN s
         ELSE [s EXCEPT !.sb = Append(s.sb, r)]

\* mutant: a backslash inside single quotes sets the escape flag
singleQuoteCase_SetsEscape(s, r) ==
    IF s.escape
    THEN [s EXCEPT !.escape = FALSE, !.sb = Append(s.sb, r)]
    ELSE IF r = sqt
         THEN [s EXCEPT !.state = parseDefault]
         ELSE IF r = esc
              THEN [s EXCEPT !.escape = TRUE]
              ELSE [s EXCEPT !.sb = Append(s.sb, r)]

\* case parseSingleQuote
singleQuoteCase(s, r) ==
    IF r = sqt
    THEN [s EXCEPT !.state = parseDefault]
    ELSE [s EXCEPT !.sb = Append(s.sb, r)]

\* mutant: a backslash inside double quotes escapes every codepoint
doubleQuoteCase_EscapesAll(s, r) ==
    IF s.escape
    THEN [s EXCEPT !.escape = FALSE, !.sb = Append(s.sb, r)]
    ELSE IF r = dqt
         THEN [s EXCEPT !.state = parseDefault]
         ELSE IF r = esc
              THEN [s EXCEPT !.escape = TRUE]
              ELSE [s EXCEPT !.sb = Append(s.sb, r)]

\* case parseDoubleQuote
doubleQuoteCase(s, r) ==
    IF s.escape
    THEN IF r # esc /\ r # dqt
         THEN [s EXCEPT !.escape = FALSE, !.sb = Append(Append(s.sb, esc), r)]
         ELSE [s EXCEPT !.escape = FALSE, !.sb = Append(s.sb, r)]
    ELSE IF r = dqt
         THEN [s EXCEPT !.state = parseDefault]
         ELSE IF r = esc
              THEN [s EXCEPT !.escape = TRUE]
              ELSE [s EXCEPT !.sb = Append(s.sb, r)]

\* the switch of the loop body
switchState(s, r, i) ==
    IF s.state = parseDefault THEN defaultCase(s, r, i)
    ELSE IF s.state = parseSingleQuote THEN singleQuoteCase(s, r)
    ELSE doubleQuoteCase(s, r)

\* the error, if any, with which the iteration at index i returns
iterError(s, rs, i) ==
    IF rs[i + 1] = eol THEN eolCheck(s, i, Len(rs)) ELSE NoError

\* the whole loop from index i on: [parts, err]
RECURSIVE splitLoop(_, _, _)
splitLoop(s, rs, i) ==
    IF i >= Len(rs)
    THEN [parts |-> s.parts, err |-> NoError]
    ELSE IF iterError(s, rs, i) # NoError
         THEN [parts |-> <<>>, err |-> iterError(s, rs, i)]
         ELSE splitLoop(switchState(s, rs[i + 1], i), rs, i + 1)

\* split(str): [parts, err]
split(str) == splitLoop(splitInit, Append(str, eol), 0)

\* mutant: on an error the parts completed so far are handed to the caller
ParseResult_Partial(ps, err) ==
    IF Len(ps) = 0
    THEN [command |-> <<>>, args |-> <<>>,
          err |-> IF err # NoError THEN err ELSE ErrUnexpectedEnd]
    ELSE [command |-> ps[1], args |-> Tail(ps), err |-> err]

\* what Parse returns for the parts and the error split returned
\* mutant: a line without tokens is a success
ParseResult_AllowsEmpty(ps, err) ==
    IF err # NoError
    THEN [command |-> <<>>, args |-> <<>>, err |-> err]
    ELSE IF Len(ps) = 0
         THEN [command |-> <<>>, args |-> <<>>, err |-> NoError]
         ELSE [command |-> ps[1], args |-> Tail(ps), err |-> NoError]

ParseResult(ps, err) ==
    IF err # NoError
    THEN [command |-> <<>>, args |-> <<>>, err |-> err]
    ELSE IF Len(ps) = 0
         THEN [command |-> <<>>, args |-> <<>>, err |-> ErrUnexpectedEnd]
         ELSE [command |-> ps[1], args |-> Tail(ps), err |-> NoError]

\* Parse(commandLine): [command, args, err]
Parse(commandLine) ==
    LET sp == split(commandLine) IN ParseResult(sp.parts, sp.err)

(***************************************************************************)
(* The encoder.                                                            *)
(***************************************************************************)
RECURSIVE quoteRaw(_)
quoteRaw(str) ==
    IF str = <<>> THEN <<>>
    ELSE LET r == Head(str) IN
         (IF IsSpace(r) \/ r = sqt \/ r = dqt \/ r = esc THEN <<esc, r>> ELSE <<r>>)
            \o quoteRaw(Tail(str))

RECURSIVE quoteSingleBody(_)
quoteSingleBody(str) ==
    IF str = <<>> THEN <<>>
    ELSE LET r == Head(str) IN
         (IF r = sqt THEN <<sqt, esc, sqt, sqt>> ELSE <<r>>)
            \o quoteSingleBody(Tail(str))

quoteSingle(str) == <<sqt>> \o quoteSingleBody(str) \o <<sqt>>

RECURSIVE quoteDoubleBody(_)
quoteDoubleBody(str) ==
    IF str = <<>> THEN <<>>
    ELSE LET r == Head(str) IN
         (IF r = dqt \/ r = esc THEN <<esc, r>> ELSE <<r>>)
            \o quoteDoubleBody(Tail(str))

quoteDouble(str) == <<dqt>> \o quoteDoubleBody(str) \o <<dqt>>

\* mutant: raw wins a tie with double
Quote_RawWinsTies(str) ==
    IF len(str) = 0
    THEN <<dqt, dqt>>
    ELSE LET raw == quoteRaw(str)
             single == quoteSingle(str)
             double == quoteDouble(str)
         IN  IF len(raw) <= len(double)
             THEN IF len(single) < len(raw) THEN single ELSE raw
             ELSE IF len(single) < len(double) THEN single ELSE double

Quote(str) ==
    IF len(str) = 0
    THEN <<dqt, dqt>>
    ELSE LET raw == quoteRaw(str)
             single == quoteSingle(str)
             double == quoteDouble(str)
         IN  IF len(raw) < len(double)
             THEN IF len(single) < len(raw) THEN single ELSE raw
             ELSE IF len(single) < len(double) THEN single ELSE double

\* mutant: an empty argument is skipped
RECURSIVE quoteArgs_SkipsEmpty(_)
quoteArgs_SkipsEmpty(as) ==
    IF as = <<>> THEN <<>>
    ELSE IF Head(as) = <<>> THEN quoteArgs_SkipsEmpty(Tail(as))
    ELSE <<spc>> \o Quote(Head(as)) \o quoteArgs_SkipsEmpty(Tail(as))

RECURSIVE quoteArgs(_)
quoteArgs(as) ==
    IF as = <<>> THEN <<>>
    ELSE <<spc>> \o Quote(Head(as)) \o quoteArgs(Tail(as))

GetCommandLine(cmd, as) == Quote(cmd) \o quoteArgs(as)

(***************************************************************************)
(* The inputs.                                                             *)
(***************************************************************************)
\* codepoints of the lines handed to Parse
LineRunes == {eol, spc, dqt, sqt, esc, chA, chB}
\* codepoints of the command and the arguments handed to GetCommandLine
TokenRunes == {eol, spc, dqt, sqt, esc, chA, nbsp}

SeqsUpTo(S, n) == UNION {[1..k -> S] : k \in 0..n}

\* A command and its arguments are drawn as one flat sequence in which Sep
\* separates the strings: every (command, args) of size up to MaxInput.
Sep == 0 - 1

RECURSIVE SplitAtSep(_)
SplitAtSep(f) ==
    IF f = <<>> THEN << <<>> >>
    ELSE LET rest == SplitAtSep(Tail(f)) IN
         IF Head(f) = Sep THEN << <<>> >> \o rest
         ELSE << <<Head(f)>> \o Head(rest) >> \o Tail(rest)

(***************************************************************************)
(* The state machine.                                                      *)
(***************************************************************************)
VARIABLES
    pc,          \* "GetCommandLine", "Parse", "split", "return", "done"
    origin,      \* "line": the caller passes a line; "encoded": it encodes one
    command,     \* GetCommandLine's command
    args,        \* GetCommandLine's args
    commandLine, \* Parse's argument
    runes,       \* split: []rune(str + string(eol))
    i,           \* split: the loop index
    parts, state, escape, sb, partStart,  \* split: the locals
    splitErr,    \* split: the error returned
    result,      \* what Parse returned: [command, args, err]
    executor,    \* RunLine: "mock", "local", or "none" when Parse is called directly
    calls,       \* MockExecutor: the calls of RunCallback, [command, args, ret]
    procs,       \* run: the executions started, [command, args]
    ret,         \* what RunLine returned: [out, code, err]
    th           \* concurrent calls: the locals of each thread's call

\* the variables of the executors
runVars == <<executor, calls, procs, ret>>

vars == <<pc, origin, command, args, commandLine, runes, i, parts, state,
          escape, sb, partStart, splitErr, result, runVars, th>>

NoReturn == [out |-> "", code |-> 0, err |-> "none"]

\* no executor and no concurrent call is involved
NoRun ==
    /\ executor = "none"
    /\ calls = <<>>
    /\ procs = <<>>
    /\ ret = NoReturn

NoThreads == th = <<>>

NoResult == [command |-> <<>>, args |-> <<>>, err |-> "none"]

locals == [parts |-> parts, state |-> state, escape |-> escape, sb |-> sb,
           partStart |-> partStart]

InitLocals ==
    /\ runes = <<>>
    /\ i = 0
    /\ parts = splitInit.parts
    /\ state = splitInit.state
    /\ escape = splitInit.escape
    /\ sb = splitInit.sb
    /\ partStart = splitInit.partStart
    /\ splitErr = NoError
    /\ result = NoResult

InitLine ==
    /\ origin = "line"
    /\ pc = "Parse"
    /\ command = <<>>
    /\ args = <<>>
    /\ commandLine \in SeqsUpTo(LineRunes, MaxLen)
    /\ InitLocals
    /\ NoRun
    /\ NoThreads

InitEncoded ==
    /\ origin = "encoded"
    /\ pc = "GetCommandLine"
    /\ \E f \in SeqsUpTo(TokenRunes \cup {Sep}, MaxInput) :
          /\ command = Head(SplitAtSep(f))
          /\ args = Tail(SplitAtSep(f))
    /\ commandLine = <<>>
    /\ InitLocals
    /\ NoRun
    /\ NoThreads

Init == InitLine \/ InitEncoded

\* the caller assembles the line
CallGetCommandLine ==
    /\ pc = "GetCommandLine"
    /\ commandLine' = GetCommandLine(command, args)
    /\ pc' = "Parse"
    /\ UNCHANGED <<origin, command, args, runes, i, parts, state, escape, sb,
                   partStart, splitErr, result>>
    /\ UNCHANGED <<runVars, th>>

\* Parse calls split, which sets up its locals
CallParse ==
    /\ pc = "Parse"
    /\ runes' = Append(commandLine, eol)
    /\ i' = 0
    /\ parts' = splitInit.parts
    /\ state' = splitInit.state
    /\ escape' = splitInit.escape
    /\ sb' = splitInit.sb
    /\ partStart' = splitInit.partStart
    /\ splitErr' = NoError
    /\ pc' = "split"
    /\ UNCHANGED <<origin, command, args, commandLine, result>>
    /\ UNCHANGED <<runVars, th>>

\* one iteration of the loop of split that returns an error
SplitFail ==
    /\ pc = "split"
    /\ i < Len(runes)
    /\ iterError(locals, runes, i) # NoError
    /\ splitErr' = iterError(locals, runes, i)
    /\ pc' = "return"
    /\ UNCHANGED <<origin, command, args, commandLine, runes, i, parts, state,
                   escape, sb, partStart, result>>
    /\ UNCHANGED <<runVars, th>>

\* one iteration of the loop of split
SplitIter ==
    /\ pc = "split"
    /\ i < Len(runes)
    /\ iterError(locals, runes, i) = NoError
    /\ LET s == switchState(locals, runes[i + 1], i) IN
          /\ parts' = s.parts
          /\ state' = s.state
          /\ escape' = s.escape
          /\ sb' = s.sb
          /\ partStart' = s.partStart
    /\ i' = i + 1
    /\ UNCHANGED <<pc, origin, command, args, commandLine, runes, splitErr,
                   result>>
    /\ UNCHANGED <<runVars, th>>

\* the loop has ended: split returns parts
SplitEnd ==
    /\ pc = "split"
    /\ i >= Len(runes)
    /\ pc' = "return"
    /\ UNCHANGED <<origin, command, args, commandLine, runes, i, parts, state,
                   escape, sb, partStart, splitErr, result>>
    /\ UNCHANGED <<runVars, th>>

\* Parse returns
ParseReturn ==
    /\ pc = "return"
    /\ result' = ParseResult(parts, splitErr)
    /\ pc' = "done"
    /\ UNCHANGED <<origin, command, args, commandLine, runes, i, parts, state,
                   escape, sb, partStart, splitErr>>
    /\ UNCHANGED <<runVars, th>>

Next ==
    \/ CallGetCommandLine
    \/ CallParse
    \/ SplitFail
    \/ SplitIter
    \/ SplitEnd
    \/ ParseReturn

Spec == Init /\ [][Next]_vars

TypeOK ==
    /\ pc \in {"GetCommandLine", "Render", "Parse", "split", "return", "done",
              "returned"}
    /\ state \in {parseDefault, parseSingleQuote, parseDoubleQuote}
    /\ escape \in BOOLEAN
    /\ pc \in {"done", "returned"} => result = Parse(commandLine)

(***************************************************************************)
(* Vocabulary of the properties.                                           *)
(***************************************************************************)
Range(str) == {str[k] : k \in 1..Len(str)}

\* a codepoint with no meaning to the tokenizer
IsPlain(r) == ~IsSpace(r) /\ r \notin {sqt, dqt, esc, eol}

AllSpace(str) == \A k \in 1..Len(str) : IsSpace(str[k])
AllPlain(str) == \A k \in 1..Len(str) : IsPlain(str[k])
NoZero(str) == eol \notin Range(str)

Done == pc = "done"

\* Parse succeeded with this command and these arguments
Returned(cmd, as) == result = [command |-> cmd, args |-> as, err |-> NoError]

\* the scan met the terminator (no literal eol before it)
AtTerminator == Len(runes) > 0 /\ i >= Len(runes) - 1

\* the locals of split after its first k iterations on a line without error
RECURSIVE scanTo(_, _)
scanTo(rs, k) ==
    IF k = 0 THEN splitInit
    ELSE switchState(scanTo(rs, k - 1), rs[k], k - 1)

\* the parser state in which a line without literal eol reaches its end
EndState(str) == scanTo(str, Len(str))
EndsInQuote(str) ==
    NoZero(str) /\ EndState(str).state \in {parseSingleQuote, parseDoubleQuote}
EndsEscaped(str) == NoZero(str) /\ EndState(str).escape

(***************************************************************************)
(* C1.  Round trip: for every command and arguments without the eol        *)
(* codepoint, Parse(GetCommandLine(command, args...)) succeeds and returns *)
(* exactly the command and the arguments.                                  *)
(***************************************************************************)
C1_RoundTrip ==
    (Done /\ origin = "encoded" /\ NoZero(command)
          /\ \A k \in 1..Len(args) : NoZero(args[k]))
        => Returned(command, args)

(***************************************************************************)
(* C2.  A line that holds exactly one token of plain codepoints, with or   *)
(* without whitespace around it, parses into that token as the command,    *)
(* with no arguments and no error.                                         *)
(***************************************************************************)
C2_SingleToken ==
    (Done /\ origin = "line")
        => \A s \in 1..Len(commandLine) : \A e \in s..Len(commandLine) :
              ( /\ AllPlain(SubSeq(commandLine, s, e))
                /\ AllSpace(SubSeq(commandLine, 1, s - 1))
                /\ AllSpace(SubSeq(commandLine, e + 1, Len(commandLine))) )
                  => Returned(SubSeq(commandLine, s, e), <<>>)

(***************************************************************************)
(* C3.  Parse returns an error only for malformed input: a line with no    *)
(* token (empty or whitespace only), a line with a literal eol codepoint,  *)
(* a line that ends inside a quoted span, or one that ends with an escape  *)
(* pending.  Every other line parses successfully.                         *)
(***************************************************************************)
C3_ErrorOnlyIfMalformed ==
    (Done /\ origin = "line" /\ result.err # NoError)
        => \/ AllSpace(commandLine)
           \/ ~NoZero(commandLine)
           \/ EndsInQuote(commandLine)
           \/ EndsEscaped(commandLine)

(***************************************************************************)
(* C4.  End-of-input failures: Parse returns a ParseError for every line   *)
(* that is empty or whitespace only, that reaches the end of input in the  *)
(* single-quote or double-quote state, or that reaches it with the escape  *)
(* flag set.                                                               *)
(***************************************************************************)
C4_EndOfInputFails ==
    (Done /\ ( \/ AllSpace(commandLine)
               \/ EndsInQuote(commandLine)
               \/ EndsEscaped(commandLine) ))
        => IsParseError(result.err)

\* a line with a completed token that ends in a double-quoted span with an
\* escape pending has been rejected
C4_Witness ==
    /\ Done /\ AtTerminator
    /\ state = parseDoubleQuote /\ escape
    /\ Len(parts) >= 1
    /\ IsParseError(result.err)

(***************************************************************************)
(* C5.  A literal eol codepoint anywhere in the line makes Parse fail with *)
(* a ParseError, whatever the parser state at that position.               *)
(***************************************************************************)
C5_ZeroRuneFails ==
    (Done /\ ~NoZero(commandLine)) => IsParseError(result.err)

\* the eol codepoint was met inside double quotes, right after a backslash
C5_Witness ==
    /\ Done
    /\ i < Len(runes) - 1 /\ runes[i + 1] = eol
    /\ state = parseDoubleQuote /\ escape
    /\ IsParseError(result.err)

(***************************************************************************)
(* Reference reading of a line, piece by piece, as the claims word it.     *)
(***************************************************************************)
Drop(str, n) == SubSeq(str, n + 1, Len(str))

NotOk == [ok |-> FALSE, content |-> <<>>, rest |-> <<>>]

\* the whitespace-separated fields of a line of plain codepoints and whitespace
RECURSIVE Fields(_)
Fields(str) ==
    IF str = <<>> THEN <<>>
    ELSE IF IsSpace(Head(str)) THEN Fields(Tail(str))
    ELSE LET rest == Fields(Tail(str)) IN
         IF Len(str) > 1 /\ ~IsSpace(str[2])
         THEN << <<Head(str)>> \o Head(rest) >> \o Tail(rest)
         ELSE << <<Head(str)>> >> \o rest

\* the rest of a double-quoted span, after its opening quote
RECURSIVE DqSpan(_)
DqSpan(str) ==
    IF str = <<>> \/ Head(str) = eol THEN NotOk
    ELSE IF Head(str) = dqt
         THEN [ok |-> TRUE, content |-> <<>>, rest |-> Tail(str)]
    ELSE IF Head(str) = esc
         THEN IF Len(str) < 2 \/ str[2] = eol THEN NotOk
              ELSE LET sub == DqSpan(Drop(str, 2)) IN
                   [sub EXCEPT !.content =
                       (IF str[2] \in {dqt, esc} THEN <<str[2]>> ELSE <<esc, str[2]>>)
                          \o sub.content]
    ELSE LET sub == DqSpan(Tail(str)) IN
         [sub EXCEPT !.content = <<Head(str)>> \o sub.content]

\* the rest of a single-quoted span, after its opening quote
RECURSIVE SqSpan(_)
SqSpan(str) ==
    IF str = <<>> \/ Head(str) = eol THEN NotOk
    ELSE IF Head(str) = sqt
         THEN [ok |-> TRUE, content |-> <<>>, rest |-> Tail(str)]
    ELSE LET sub == SqSpan(Tail(str)) IN
         [sub EXCEPT !.content = <<Head(str)>> \o sub.content]

\* a line of quoted spans, unquoted runs and escaped codepoints only, with no
\* unquoted, unescaped whitespace: the concatenation of the pieces' contents
RECURSIVE Pieces(_)
Pieces(str) ==
    IF str = <<>> THEN [ok |-> TRUE, content |-> <<>>, rest |-> <<>>]
    ELSE LET r == Head(str)
             piece ==
                IF IsPlain(r)
                THEN [ok |-> TRUE, content |-> <<r>>, rest |-> Tail(str)]
                ELSE IF r = esc
                THEN IF Len(str) < 2 \/ str[2] = eol THEN NotOk
                     ELSE [ok |-> TRUE, content |-> <<str[2]>>, rest |-> Drop(str, 2)]
                ELSE IF r = sqt THEN SqSpan(Tail(str))
                ELSE IF r = dqt THEN DqSpan(Tail(str))
                ELSE NotOk
         IN  IF ~piece.ok THEN NotOk
             ELSE LET sub == Pieces(piece.rest) IN
                  IF ~sub.ok THEN NotOk
                  ELSE [sub EXCEPT !.content = piece.content \o sub.content]

\* a line of plain codepoints and backslash-escaped codepoints only: the
\* line without the escaping backslashes
RECURSIVE Unescaped(_)
Unescaped(str) ==
    IF str = <<>> THEN [ok |-> TRUE, content |-> <<>>, rest |-> <<>>]
    ELSE IF IsPlain(Head(str))
         THEN LET sub == Unescaped(Tail(str)) IN
              [sub EXCEPT !.content = <<Head(str)>> \o sub.content]
    ELSE IF Head(str) = esc /\ Len(str) >= 2 /\ str[2] # eol
         THEN LET sub == Unescaped(Drop(str, 2)) IN
              [sub EXCEPT !.content = <<str[2]>> \o sub.content]
    ELSE NotOk

\* codepoint k of the line is whitespace met outside quotes and unescaped
IsBoundary(str, k) ==
    /\ IsSpace(str[k])
    /\ scanTo(str, k - 1).state = parseDefault
    /\ ~scanTo(str, k - 1).escape

\* the line with one more whitespace codepoint before codepoint k
Widened(str, k) == SubSeq(str, 1, k - 1) \o <<spc>> \o Drop(str, k - 1)

\* The length of a whitespace run does not matter: widening an unquoted,
\* unescaped whitespace boundary, or appending whitespace to a line that
\* parses, never changes the result of Parse.
C6_RunLengthIrrelevant ==
    (Done /\ origin = "line" /\ NoZero(commandLine))
        => /\ \A k \in 1..Len(commandLine) :
                 IsBoundary(commandLine, k)
                    => Parse(Widened(commandLine, k)) = result
           /\ (result.err = NoError
                 => Parse(commandLine \o <<spc>>) = result)

(***************************************************************************)
(* C6.  Whitespace collapsing: widening an unquoted, unescaped whitespace  *)
(* boundary, or appending whitespace after the last token, never changes   *)
(* the result of Parse; a whitespace run is exactly one boundary and never *)
(* makes an empty token: a line of plain tokens separated by whitespace    *)
(* runs parses into exactly these tokens.                                  *)
(***************************************************************************)
C6_WhitespaceCollapsing ==
    /\ C6_RunLengthIrrelevant
    /\ (Done /\ origin = "line"
             /\ (\A k \in 1..Len(commandLine) :
                   IsPlain(commandLine[k]) \/ IsSpace(commandLine[k]))
             /\ Len(Fields(commandLine)) >= 2)
          => Returned(Head(Fields(commandLine)), Tail(Fields(commandLine)))

(***************************************************************************)
(* C7.  Quote concatenation: a non-empty line of quoted spans, unquoted    *)
(* runs and escaped codepoints with no unquoted, unescaped whitespace      *)
(* yields exactly one token, the concatenation of the contents of the      *)
(* pieces in order.                                                        *)
(***************************************************************************)
C7_QuoteConcatenation ==
    (Done /\ origin = "line" /\ Len(commandLine) > 0 /\ Pieces(commandLine).ok)
        => Returned(Pieces(commandLine).content, <<>>)

\* the same, for the lines of two codepoints or more
C7_HoldsFromTwoCodepoints ==
    (Done /\ origin = "line" /\ Len(commandLine) > 1 /\ Pieces(commandLine).ok)
        => Returned(Pieces(commandLine).content, <<>>)

(***************************************************************************)
(* C8.  Inside single quotes nothing is interpreted: every codepoint but   *)
(* the single quote is literal (backslash, double quote and whitespace     *)
(* too), a backslash does not protect a following single quote, and the    *)
(* first single quote after the opening one closes the span: the line      *)
(* 'body'tail, body without single quote and tail plain, is the one token  *)
(* body tail.                                                              *)
(***************************************************************************)
C8_SingleQuoteLiteral ==
    Done
        => \A q \in 2..Len(commandLine) :
              ( /\ commandLine[1] = sqt
                /\ commandLine[q] = sqt
                /\ sqt \notin Range(SubSeq(commandLine, 2, q - 1))
                /\ NoZero(SubSeq(commandLine, 2, q - 1))
                /\ AllPlain(Drop(commandLine, q)) )
                  => Returned(SubSeq(commandLine, 2, q - 1) \o Drop(commandLine, q),
                              <<>>)

\* the line '"\'a : the backslash is literal and does not protect the quote
C8_Witness ==
    /\ Done
    /\ commandLine = <<sqt, dqt, esc, sqt, chA>>
    /\ Returned(<<dqt, esc, chA>>, <<>>)

(***************************************************************************)
(* C9.  Inside double quotes a backslash escapes only a double quote or a  *)
(* backslash: \" gives one double quote and does not close the span, \\    *)
(* gives one backslash, backslash and any other codepoint x give the two   *)
(* codepoints \x; whitespace in the span is literal.                       *)
(***************************************************************************)
C9_DoubleQuoteEscapes ==
    (Done /\ Len(commandLine) >= 2 /\ Head(commandLine) = dqt)
        => LET span == DqSpan(Tail(commandLine)) IN
           (span.ok /\ span.rest = <<>>) => Returned(span.content, <<>>)

\* a line "\x " : backslash and x are both kept, the space is literal
C9_Witness ==
    /\ Done
    /\ Len(commandLine) >= 5
    /\ commandLine[1] = dqt /\ commandLine[2] = esc
    /\ IsPlain(commandLine[3]) /\ IsSpace(commandLine[4])
    /\ commandLine[5] = dqt
    /\ Returned(<<esc, commandLine[3], commandLine[4]>>, <<>>)

(***************************************************************************)
(* C10.  Outside quotes a backslash makes the next codepoint literal       *)
(* content of the token and is itself dropped, for exactly one codepoint:  *)
(* a line of plain and backslash-escaped codepoints, with at least one     *)
(* backslash, is the one token made of the line without the escaping       *)
(* backslashes.                                                            *)
(***************************************************************************)
C10_EscapeOutsideQuotes ==
    (Done /\ esc \in Range(commandLine)
          /\ Unescaped(commandLine).ok)
        => Returned(Unescaped(commandLine).content, <<>>)

\* the line a\ \\ : an escaped space and an escaped backslash in one token
C10_Witness ==
    /\ Done
    /\ commandLine = <<chA, esc, spc, esc, esc>>
    /\ Returned(<<chA, spc, esc>>, <<>>)

\* the tokens Parse returned, the command first
ResultTokens == <<result.command>> \o result.args

\* the pieces into which the unquoted, unescaped whitespace of a line cuts it,
\* from codepoint k on, cur being the piece under way; with keepEmpty the
\* empty pieces between two adjacent boundaries are kept
RECURSIVE SegmentsFrom(_, _, _, _)
SegmentsFrom(str, k, cur, keepEmpty) ==
    LET out == IF cur = <<>> /\ ~keepEmpty THEN <<>> ELSE <<cur>> IN
    IF k > Len(str) THEN out
    ELSE IF IsBoundary(str, k)
         THEN out \o SegmentsFrom(str, k + 1, <<>>, keepEmpty)
         ELSE SegmentsFrom(str, k + 1, Append(cur, str[k]), keepEmpty)

\* the non-empty pieces between the boundaries of a line: its tokens' texts
Segments(str) == SegmentsFrom(str, 1, <<>>, FALSE)

\* a text made only of zero-content quote pairs: "" or '' , once or more
RECURSIVE QuotePairsOnly(_)
QuotePairsOnly(seg) ==
    /\ Len(seg) >= 2
    /\ \/ seg[1] = dqt /\ seg[2] = dqt
       \/ seg[1] = sqt /\ seg[2] = sqt
    /\ Len(seg) = 2 \/ QuotePairsOnly(Drop(seg, 2))

\* a line without literal eol that ends outside quotes, with no escape pending
WellFormed(str) == NoZero(str) /\ ~EndsInQuote(str) /\ ~EndsEscaped(str)

\* the first token of the line is one codepoint at index 0
OneCodepointFirst(str) ==
    /\ Len(str) >= 1 /\ ~IsBoundary(str, 1)
    /\ Len(str) = 1 \/ IsBoundary(str, 2)

\* every piece between two boundaries is one token, and the token is empty
\* exactly when the piece is made only of zero-content quote pairs
EmptyTokensAsClaimed ==
    LET segs == Segments(commandLine) IN
    /\ result.err = NoError
    /\ Len(ResultTokens) = Len(segs)
    /\ \A j \in 1..Len(segs) :
          (ResultTokens[j] = <<>>) <=> QuotePairsOnly(segs[j])

(***************************************************************************)
(* C11.  Empty-token production: a token made only of zero-content quote   *)
(* pairs between two boundaries is emitted as one empty-string token, this *)
(* is the only way an empty string appears among the tokens, and a token   *)
(* not opened since the previous boundary is never emitted.                *)
(***************************************************************************)
C11_EmptyTokens ==
    (Done /\ origin = "line" /\ WellFormed(commandLine)
          /\ \E j \in 1..Len(Segments(commandLine)) :
                QuotePairsOnly(Segments(commandLine)[j]))
        => EmptyTokensAsClaimed

\* the same, for the lines whose first token is not one codepoint at index 0
C11_HoldsUnlessOneCodepointFirst ==
    (Done /\ origin = "line" /\ WellFormed(commandLine)
          /\ Segments(commandLine) # <<>>
          /\ ~OneCodepointFirst(commandLine))
        => EmptyTokensAsClaimed

\* the caller holds the line GetCommandLine made
Encoded == origin = "encoded" /\ pc # "GetCommandLine"

\* the two-step selection among the three candidates, by length in codepoints
SelectionRule(tok) ==
    LET raw == quoteRaw(tok)
        single == quoteSingle(tok)
        double == quoteDouble(tok)
        winner == IF Len(raw) >= Len(double) THEN double ELSE raw
    IN  IF Len(single) < Len(winner) THEN single ELSE winner

(***************************************************************************)
(* C12.  Encoder selection rule: for a non-empty token Quote returns the   *)
(* result of the two-step rule (winner = double if length(raw) >=          *)
(* length(double), else raw; result = single if length(single) <           *)
(* length(winner), else winner).  So the result has the minimum length of  *)
(* the three candidates, a raw/double tie never yields raw (it yields      *)
(* double unless single is strictly shorter), and single is returned only  *)
(* when strictly shorter than both.                                        *)
(***************************************************************************)
C12_SelectionRule ==
    (Encoded /\ args = <<>> /\ command # <<>>)
        => LET raw == quoteRaw(command)
               single == quoteSingle(command)
               double == quoteDouble(command)
           IN  /\ commandLine = SelectionRule(command)
               /\ commandLine \in {raw, single, double}
               /\ Len(commandLine) <= Len(raw)
               /\ Len(commandLine) <= Len(single)
               /\ Len(commandLine) <= Len(double)
               /\ Len(raw) = Len(double)
                     => commandLine = IF Len(single) < Len(double)
                                      THEN single ELSE double
               /\ commandLine = single
                     => Len(single) < Len(raw) /\ Len(single) < Len(double)

\* the token '' : raw \'\' and double "''" tie, and double is returned
C12_Witness ==
    /\ Encoded /\ args = <<>>
    /\ command = <<sqt, sqt>>
    /\ Len(quoteRaw(command)) = Len(quoteDouble(command))
    /\ commandLine = <<dqt, sqt, sqt, dqt>>

(***************************************************************************)
(* C13.  The encoder has no error path and never makes an empty fragment:  *)
(* Quote of the empty token is the two-character double-quote pair, and    *)
(* for every token, the eol codepoint included, Quote returns a non-empty  *)
(* fragment that the tokenizer parses back to that token.                  *)
(***************************************************************************)
C13_QuoteParsesBack ==
    (Done /\ origin = "encoded" /\ args = <<>>)
        => /\ commandLine # <<>>
           /\ command = <<>> => commandLine = <<dqt, dqt>>
           /\ Returned(command, <<>>)

\* the same, for the tokens without the eol codepoint
C13_WithoutZero ==
    (Done /\ origin = "encoded" /\ args = <<>> /\ NoZero(command))
        => /\ commandLine # <<>>
           /\ command = <<>> => commandLine = <<dqt, dqt>>
           /\ Returned(command, <<>>)

\* the same, for the tokens without the eol codepoint that are not one plain
\* codepoint
C13_HoldsUnlessOnePlainCodepoint ==
    (Done /\ origin = "encoded" /\ args = <<>> /\ NoZero(command)
          /\ ~(Len(command) = 1 /\ IsPlain(command[1])))
        => /\ commandLine # <<>>
           /\ command = <<>> => commandLine = <<dqt, dqt>>
           /\ Returned(command, <<>>)

\* all the pieces between the boundaries of a line, the empty ones too: a
\* leading, trailing or doubled separator shows as an empty piece
AllSegments(str) == SegmentsFrom(str, 1, <<>>, TRUE)

\* the number of unquoted, unescaped whitespace codepoints of a line
NumBoundaries(str) == Cardinality({k \in 1..Len(str) : IsBoundary(str, k)})

(***************************************************************************)
(* C14.  GetCommandLine(command, args...) is Quote(command) followed, for  *)
(* each argument in order, by exactly one space and Quote(argument): no    *)
(* leading or trailing separator, no argument dropped (empty ones too), no *)
(* reordering; the line has exactly len(args) unquoted, unescaped          *)
(* separator spaces.                                                       *)
(***************************************************************************)
C14_LineLayout ==
    Encoded
        => /\ NumBoundaries(commandLine) = Len(args)
           /\ \A k \in 1..Len(commandLine) :
                 IsBoundary(commandLine, k) => commandLine[k] = spc
           /\ Len(AllSegments(commandLine)) = Len(args) + 1
           /\ AllSegments(commandLine)[1] = Quote(command)
           /\ \A k \in 1..Len(args) :
                 AllSegments(commandLine)[k + 1] = Quote(args[k])

\* a command with an empty argument and an argument that is one space
C14_Witness ==
    /\ Encoded
    /\ command = <<chA>>
    /\ args = << <<>>, <<spc>> >>
    /\ commandLine = <<chA, spc, dqt, dqt, spc, esc, spc>>

(***************************************************************************)
(* C15.  Whenever Parse returns an error it returns the empty command and  *)
(* no argument list, however many tokens were completed before the point   *)
(* of failure: no partial token list reaches the caller.                   *)
(***************************************************************************)
C15_NoPartialResult ==
    (Done /\ result.err # NoError)
        => /\ IsParseError(result.err)
           /\ result.command = <<>>
           /\ result.args = <<>>

\* Parse failed after split had completed two tokens
C15_Witness ==
    /\ Done
    /\ IsParseError(result.err)
    /\ Len(parts) >= 2
    /\ result.command = <<>> /\ result.args = <<>>

(***************************************************************************)
(* The executors: RunLine parses the line, then hands the command and the  *)
(* arguments to the callback (MockExecutor) or to run (LocalExecutor, the  *)
(* DefaultExecutor).                                                       *)
(***************************************************************************)
ErrRun == "ErrRun: Could not execute command"
GenericError == "GenericError"

\* what a RunCallback may return
CallbackReturns ==
    [out : {"", "foobar"}, code : {0, 42}, err : {NoError, GenericError}]

\* how an execution may end: exit status 0, an ExitError with a wait status,
\* or any other error of CombinedOutput (the process could not be started)
RunOutcomes ==
    [kind : {"ok"}, out : {"", "output"}, code : {0}]
        \cup [kind : {"exit"}, out : {"", "output"}, code : {1, 2}]
        \cup [kind : {"error"}, out : {"", "output"}, code : {0}]

\* what run returns for an outcome
runReturn(o) ==
    IF o.kind = "ok" THEN [out |-> o.out, code |-> 0, err |-> NoError]
    ELSE IF o.kind = "exit" THEN [out |-> o.out, code |-> o.code, err |-> NoError]
    ELSE [out |-> o.out, code |-> 0, err |-> ErrRun]

\* what RunLine returns when Parse failed
parseFailReturn(err) == [out |-> "", code |-> 0, err |-> err]

InitExec ==
    /\ origin = "RunLine"
    /\ pc = "Parse"
    /\ command = <<>>
    /\ args = <<>>
    /\ commandLine \in SeqsUpTo(LineRunes, MaxLen)
    /\ InitLocals
    /\ executor \in {"mock", "local"}
    /\ calls = <<>>
    /\ procs = <<>>
    /\ ret = NoReturn
    /\ NoThreads

parseVars == <<origin, command, args, commandLine, runes, i, parts, state,
               escape, sb, partStart, splitErr, result>>

\* mutant: the callback is called although the line did not parse
MockRunLineError_CallsBack ==
    /\ pc = "done"
    /\ executor = "mock"
    /\ result.err # NoError
    /\ \E r \in CallbackReturns :
          /\ calls' = Append(calls, [command |-> result.command,
                                     args |-> result.args, ret |-> r])
          /\ ret' = parseFailReturn(result.err)
    /\ pc' = "returned"
    /\ UNCHANGED <<parseVars, executor, procs, th>>

\* MockExecutor.RunLine: Parse returned an error
MockRunLineError ==
    /\ pc = "done"
    /\ executor = "mock"
    /\ result.err # NoError
    /\ ret' = parseFailReturn(result.err)
    /\ pc' = "returned"
    /\ UNCHANGED <<parseVars, executor, calls, procs, th>>

\* MockExecutor.RunLine: Parse succeeded, RunCallback is called
MockRunLineCallback ==
    /\ pc = "done"
    /\ executor = "mock"
    /\ result.err = NoError
    /\ \E r \in CallbackReturns :
          /\ calls' = Append(calls, [command |-> result.command,
                                     args |-> result.args, ret |-> r])
          /\ ret' = r
    /\ pc' = "returned"
    /\ UNCHANGED <<parseVars, executor, procs, th>>

\* mutant: the command is run although the line did not parse
runLineError_Runs ==
    /\ pc = "done"
    /\ executor = "local"
    /\ result.err # NoError
    /\ procs' = Append(procs, [command |-> result.command, args |-> result.args])
    /\ \E o \in RunOutcomes : ret' = runReturn(o)
    /\ pc' = "returned"
    /\ UNCHANGED <<parseVars, executor, calls, th>>

\* runLine: Parse returned an error
runLineError ==
    /\ pc = "done"
    /\ executor = "local"
    /\ result.err # NoError
    /\ ret' = parseFailReturn(result.err)
    /\ pc' = "returned"
    /\ UNCHANGED <<parseVars, executor, calls, procs, th>>

\* runLine: Parse succeeded, run executes the command
runLineRun ==
    /\ pc = "done"
    /\ executor = "local"
    /\ result.err = NoError
    /\ procs' = Append(procs, [command |-> result.command, args |-> result.args])
    /\ \E o \in RunOutcomes : ret' = runReturn(o)
    /\ pc' = "returned"
    /\ UNCHANGED <<parseVars, executor, calls, th>>

NextExec ==
    \/ CallParse
    \/ SplitFail
    \/ SplitIter
    \/ SplitEnd
    \/ ParseReturn
    \/ MockRunLineError
    \/ MockRunLineCallback
    \/ runLineError
    \/ runLineRun

SpecExec == InitExec /\ [][NextExec]_vars

Returned_RunLine == pc = "returned"

(***************************************************************************)
(* C16.  MockExecutor.RunLine routes through the real tokenizer: when the  *)
(* line fails to parse the callback is never called and the ParseError is  *)
(* returned with empty output and code 0; when it parses the callback is   *)
(* called exactly once, with the parsed command and arguments, and its     *)
(* output, code and error are returned unchanged.  Before RunLine returns  *)
(* (while the line is being parsed) the callback has not been called.      *)
(***************************************************************************)
C16_MockRunLine ==
    executor = "mock"
        => /\ procs = <<>>
           /\ ~Returned_RunLine => calls = <<>> /\ ret = NoReturn
           /\ (Returned_RunLine /\ Parse(commandLine).err # NoError)
                 => /\ calls = <<>>
                    /\ IsParseError(ret.err)
                    /\ ret = [out |-> "", code |-> 0,
                              err |-> Parse(commandLine).err]
           /\ (Returned_RunLine /\ Parse(commandLine).err = NoError)
                 => /\ Len(calls) = 1
                    /\ calls[1].command = Parse(commandLine).command
                    /\ calls[1].args = Parse(commandLine).args
                    /\ ret = calls[1].ret

\* the callback was called once, with arguments, and what it returned (an
\* output, the code 42 and an error of its own) came back from RunLine
C16_Witness ==
    /\ executor = "mock" /\ Returned_RunLine
    /\ Len(calls) = 1
    /\ Len(calls[1].args) >= 1
    /\ ret = [out |-> "foobar", code |-> 42, err |-> GenericError]

(***************************************************************************)
(* C17.  RunLine is tokenize-then-execute with separated error kinds: a    *)
(* line that fails to parse returns a ParseError (never a run error) with  *)
(* empty output and code 0 and no process is started; a line that parses   *)
(* leads to exactly one execution, with the parsed command and arguments,  *)
(* after parsing has completed.                                            *)
(***************************************************************************)
C17_RunLine ==
    executor = "local"
        => /\ calls = <<>>
           /\ ~Returned_RunLine => procs = <<>> /\ ret = NoReturn
           /\ (Returned_RunLine /\ Parse(commandLine).err # NoError)
                 => /\ procs = <<>>
                    /\ IsParseError(ret.err) /\ ret.err # ErrRun
                    /\ ret = [out |-> "", code |-> 0,
                              err |-> Parse(commandLine).err]
           /\ (Returned_RunLine /\ Parse(commandLine).err = NoError)
                 => /\ Len(procs) = 1
                    /\ procs[1].command = Parse(commandLine).command
                    /\ procs[1].args = Parse(commandLine).args
                    /\ ~IsParseError(ret.err)

\* a line with arguments parsed and was executed once; the execution failed
\* with a run error, not a parse error
C17_Witness ==
    /\ executor = "local" /\ Returned_RunLine
    /\ Len(procs) = 1
    /\ Len(procs[1].args) >= 1
    /\ ret.err = ErrRun

(***************************************************************************)
(* Concurrent calls.  Each thread runs one call of Parse or of Quote, one  *)
(* codepoint per step; the steps of the threads interleave freely.  The    *)
(* locals of a call (split: parts, state, escape, sb, partStart; the       *)
(* quote functions: sb) live in the thread's record.                       *)
(***************************************************************************)
NumThreads == 2
MaxConcLen == 2

ConcRunes == {eol, spc, dqt, sqt, esc, chA}

Threads == 1..NumThreads

\* a call that has not taken a step yet
ThreadInit(kind, line) ==
    [kind |-> kind, line |-> line,
     pc |-> IF kind = "Parse" THEN "split" ELSE "Quote",
     i |-> 0, s |-> splitInit, raw |-> <<>>, single |-> <<>>,
     result |-> NoResult, out |-> <<>>, mixed |-> FALSE]

InitConc ==
    /\ origin = "threads"
    /\ pc = "threads"
    /\ command = <<>>
    /\ args = <<>>
    /\ commandLine = <<>>
    /\ InitLocals
    /\ NoRun
    /\ th \in [Threads -> {ThreadInit(k, l) :
                              k \in {"Parse", "Quote"},
                              l \in SeqsUpTo(ConcRunes, MaxConcLen)}]

\* mutant: the locals are shared, every call works on those of thread 1
localsOf_Shared(t) == th[1].s

\* the locals that the call of thread t reads
localsOf(t) == th[t].s

\* the call is between its first step and its return
Active(u) ==
    \/ th[u].pc = "split" /\ th[u].i > 0
    \/ th[u].pc \in {"quoteRaw", "quoteSingle", "quoteDouble"}

\* some other call is under way while thread t takes a step
Overlaps(t) == \E u \in Threads \ {t} : Active(u)

\* what the loops of quoteRaw, quoteSingle and quoteDouble write for r
quoteRawRune(r) ==
    IF IsSpace(r) \/ r = sqt \/ r = dqt \/ r = esc THEN <<esc, r>> ELSE <<r>>
quoteSingleRune(r) == IF r = sqt THEN <<sqt, esc, sqt, sqt>> ELSE <<r>>
quoteDoubleRune(r) == IF r = dqt \/ r = esc THEN <<esc, r>> ELSE <<r>>

\* the comparison at the end of Quote
shortest(raw, single, double) ==
    IF len(raw) < len(double)
    THEN IF len(single) < len(raw) THEN single ELSE raw
    ELSE IF len(single) < len(double) THEN single ELSE double

\* one step of a call of Parse: an iteration of split, or the return
parseStep(me, s) ==
    LET rs == Append(me.line, eol) IN
    IF me.i >= Len(rs)
    THEN [me EXCEPT !.pc = "done", !.result = ParseResult(s.parts, NoError)]
    ELSE IF iterError(s, rs, me.i) # NoError
    THEN [me EXCEPT !.pc = "done",
                    !.result = ParseResult(<<>>, iterError(s, rs, me.i))]
    ELSE [me EXCEPT !.s = switchState(s, rs[me.i + 1], me.i), !.i = me.i + 1]

\* one step of a call of Quote: the length test, an iteration of one of the
\* three loops, the return of one of the three functions
quoteStep(me, s) ==
    LET more == me.i < Len(me.line)
        r == me.line[me.i + 1]
    IN
    IF me.pc = "Quote"
    THEN IF len(me.line) = 0
         THEN [me EXCEPT !.pc = "done", !.out = <<dqt, dqt>>]
         ELSE [me EXCEPT !.pc = "quoteRaw", !.i = 0, !.s.sb = <<>>]
    ELSE IF me.pc = "quoteRaw"
    THEN IF more
         THEN [me EXCEPT !.s.sb = s.sb \o quoteRawRune(r), !.i = me.i + 1]
         ELSE [me EXCEPT !.raw = s.sb,
                         !.pc = "quoteSingle", !.i = 0, !.s.sb = <<sqt>>]
    ELSE IF me.pc = "quoteSingle"
    THEN IF more
         THEN [me EXCEPT !.s.sb = s.sb \o quoteSingleRune(r), !.i = me.i + 1]
         ELSE [me EXCEPT !.single = s.sb \o <<sqt>>,
                         !.pc = "quoteDouble", !.i = 0, !.s.sb = <<dqt>>]
    ELSE IF more
         THEN [me EXCEPT !.s.sb = s.sb \o quoteDoubleRune(r), !.i = me.i + 1]
         ELSE [me EXCEPT !.pc = "done",
                         !.out = shortest(me.raw, me.single, s.sb \o <<dqt>>)]

idleVars == <<pc, origin, command, args, commandLine, runes, i, parts, state,
              escape, sb, partStart, splitErr, result, runVars>>

ThreadParseStep(t) ==
    /\ th[t].kind = "Parse"
    /\ th[t].pc # "done"
    /\ th' = [th EXCEPT ![t] =
                 [parseStep(th[t], localsOf(t))
                     EXCEPT !.mixed = th[t].mixed \/ Overlaps(t)]]
    /\ UNCHANGED idleVars

ThreadQuoteStep(t) ==
    /\ th[t].kind = "Quote"
    /\ th[t].pc # "done"
    /\ th' = [th EXCEPT ![t] =
                 [quoteStep(th[t], localsOf(t))
                     EXCEPT !.mixed = th[t].mixed \/ Overlaps(t)]]
    /\ UNCHANGED idleVars

NextConc ==
    \/ \E t \in Threads : ThreadParseStep(t)
    \/ \E t \in Threads : ThreadQuoteStep(t)

SpecConc == InitConc /\ [][NextConc]_vars

(***************************************************************************)
(* C18.  Concurrent calls do not interfere: when Parse and Quote calls run *)
(* in different threads, interleaved codepoint by codepoint, each call     *)
(* returns what it returns when run alone; and at every step the locals of *)
(* a Parse call are those of a scan of its own line alone.                 *)
(***************************************************************************)
C18_NoInterference ==
    \A t \in Threads :
        /\ (th[t].kind = "Parse" /\ th[t].pc = "done")
              => th[t].result = Parse(th[t].line)
        /\ (th[t].kind = "Quote" /\ th[t].pc = "done")
              => th[t].out = Quote(th[t].line)
        /\ th[t].kind = "Parse"
              => th[t].s = scanTo(Append(th[t].line, eol), th[t].i)

\* a Parse call and a Quote call have both returned, each took steps while
\* the other was under way, the line had a quote to process and the token
\* needed quoting
C18_Witness ==
    /\ th[1].kind = "Parse" /\ th[1].pc = "done" /\ th[1].mixed
    /\ th[1].result.err = NoError /\ dqt \in Range(th[1].line)
    /\ th[2].kind = "Quote" /\ th[2].pc = "done" /\ th[2].mixed
    /\ th[2].out # th[2].line /\ Len(th[2].line) = MaxConcLen

\* the tokens split has emitted when it is through the terminator of a line
\* without literal eol
EmittedAtEnd(str) == scanTo(Append(str, eol), Len(str) + 1).parts

(***************************************************************************)
(* C19.  Every successful Parse has ended its scan at the terminator in    *)
(* state Default with the escape flag false, and returns at least one      *)
(* token, the first being the command; a scan that reaches the terminator  *)
(* inside single or double quotes, or with an escape pending, or that has  *)
(* emitted no token, returns a ParseError.                                 *)
(***************************************************************************)
C19_SuccessEndsInDefault ==
    Done =>
        /\ result.err = NoError
              => /\ AtTerminator
                 /\ state = parseDefault /\ ~escape
                 /\ NoZero(commandLine)
                 /\ EndState(commandLine).state = parseDefault
                 /\ ~EndState(commandLine).escape
                 /\ Len(parts) >= 1
                 /\ parts = EmittedAtEnd(commandLine)
                 /\ result.command = parts[1]
                 /\ result.args = Tail(parts)
        /\ (\/ EndsInQuote(commandLine)
            \/ EndsEscaped(commandLine)
            \/ NoZero(commandLine) /\ EmittedAtEnd(commandLine) = <<>>)
              => IsParseError(result.err)

\* a successful Parse of a line with a quoted part and an escape, with a
\* command and an argument
C19_Witness ==
    /\ Done /\ result.err = NoError
    /\ Len(parts) >= 2
    /\ esc \in Range(commandLine)
    /\ dqt \in Range(commandLine) \/ sqt \in Range(commandLine)

\* the scan with a 'token opened' flag in place of the boundary index: at a
\* boundary the token is emitted when the flag is set, and the flag is
\* cleared; every other codepoint is consumed as split consumes it and sets
\* the flag
AtBoundary(s, r) ==
    s.state = parseDefault /\ ~s.escape /\ (IsSpace(r) \/ r = eol)

flagStep(p, r, idx) ==
    IF AtBoundary(p.s, r)
    THEN [s |-> IF p.opened
                THEN [p.s EXCEPT !.parts = Append(p.s.parts, p.s.sb),
                                 !.sb = <<>>]
                ELSE p.s,
          opened |-> FALSE]
    ELSE [s |-> switchState(p.s, r, idx), opened |-> TRUE]

RECURSIVE flagScan(_, _)
flagScan(rs, k) ==
    IF k = 0 THEN [s |-> splitInit, opened |-> FALSE]
    ELSE flagStep(flagScan(rs, k - 1), rs[k], k - 1)

\* split and the scan with the flag, side by side after i iterations: the
\* same tokens, buffer, state and escape flag, and at a boundary (a whitespace
\* or the terminator that split goes on to test) the index test says what
\* the flag says
IndexRefinesFlag ==
    LET f == flagScan(runes, i) IN
    /\ parts = f.s.parts
    /\ sb = f.s.sb
    /\ state = f.s.state
    /\ escape = f.s.escape
    /\ (i < Len(runes) /\ iterError(locals, runes, i) = NoError
                       /\ AtBoundary(locals, runes[i + 1]))
          => (partEnds(partStart, i) <=> f.opened)

(***************************************************************************)
(* C20.  The index-based boundary test of split (emit at a whitespace or   *)
(* at the terminator at index i iff partStart < i - 1) refines the 'token  *)
(* opened' flag: side by side on any line, split emits a token at a        *)
(* boundary exactly when a codepoint or quote has been consumed since the  *)
(* previous boundary or the start of the line, and both have the same      *)
(* token sequence.                                                         *)
(***************************************************************************)
C20_IndexRefinesFlag == pc = "split" => IndexRefinesFlag

\* the same, for the lines whose first token is not one codepoint at index 0
C20_HoldsUnlessOneCodepointFirst ==
    (pc = "split" /\ ~OneCodepointFirst(commandLine)) => IndexRefinesFlag

(***************************************************************************)
(* The three candidate renderings of Quote, each taken on its own: a       *)
(* caller writes a command, one space and one rendering of a token, and    *)
(* parses the line.                                                        *)
(***************************************************************************)
MaxTok == 3

Renderings == {"quoteRaw", "quoteSingle", "quoteDouble"}

\* the commands the renderings are placed after
Commands == SeqsUpTo({chA, chB}, 2) \ {<<>>}

\* the rendering of str by the named function
render(name, str) ==
    IF name = "quoteRaw" THEN quoteRaw(str)
    ELSE IF name = "quoteSingle" THEN quoteSingle(str)
    ELSE quoteDouble(str)

InitCand ==
    /\ origin \in Renderings
    /\ pc = "Render"
    /\ command \in Commands
    /\ \E v \in SeqsUpTo(TokenRunes, MaxTok) : args = <<v>>
    /\ commandLine = <<>>
    /\ InitLocals
    /\ NoRun
    /\ NoThreads

\* the caller assembles the line from the command, a space and the rendering
CallRender ==
    /\ pc = "Render"
    /\ commandLine' = command \o <<spc>> \o render(origin, args[1])
    /\ pc' = "Parse"
    /\ UNCHANGED <<origin, command, args, runes, i, parts, state, escape, sb,
                   partStart, splitErr, result>>
    /\ UNCHANGED <<runVars, th>>

NextCand ==
    \/ CallRender
    \/ CallParse
    \/ SplitFail
    \/ SplitIter
    \/ SplitEnd
    \/ ParseReturn

SpecCand == InitCand /\ [][NextCand]_vars

\* a rendering of a non-empty token without NUL has been parsed
CandidateParsed ==
    /\ Done
    /\ origin \in Renderings
    /\ args[1] # <<>>
    /\ NoZero(args[1])

(***************************************************************************)
(* C21.  Each of the three candidate renderings is a valid encoding: for   *)
(* every non-empty token v without NUL, each of quoteRaw(v),               *)
(* quoteSingle(v) and quoteDouble(v), placed after a command and one       *)
(* space, is parsed as exactly one argument equal to v.                    *)
(***************************************************************************)
C21_CandidatesValid ==
    CandidateParsed => Returned(command, <<args[1]>>)

\* the same, for commands of two codepoints or more
C21_HoldsUnlessOneCodepointCommand ==
    (CandidateParsed /\ Len(command) >= 2) => Returned(command, <<args[1]>>)

\* split is about to run the switch on the codepoint at index i
AtSwitch ==
    pc = "split" /\ i < Len(runes) /\ iterError(locals, runes, i) = NoError

(***************************************************************************)
(* C22.  In every reachable parser state the escape flag is false while    *)
(* the state is parseSingleQuote: the flag is only ever set in             *)
(* parseDefault or parseDoubleQuote, it is cleared by the very next        *)
(* codepoint, in the same state, and a quote state is never entered or     *)
(* left while the flag is set.                                             *)
(***************************************************************************)
C22_NoEscapeInSingleQuote ==
    /\ state = parseSingleQuote => ~escape
    /\ AtSwitch =>
          LET n == switchState(locals, runes[i + 1], i) IN
          /\ (~escape /\ n.escape)
                => /\ state \in {parseDefault, parseDoubleQuote}
                   /\ n.state = state
                   /\ runes[i + 1] = esc
          /\ escape => ~n.escape /\ n.state = state
          /\ n.state # state => ~escape /\ ~n.escape

\* the scan is inside single quotes and has just consumed a backslash there,
\* which went to the buffer
C22_Witness ==
    /\ pc = "split" /\ state = parseSingleQuote
    /\ i >= 2 /\ runes[i] = esc
    /\ Len(sb) >= 1 /\ sb[Len(sb)] = esc

====
